---- MODULE Spec2Model ----
(***************************************************************************)
(* DbFacade.js: the IndexedDB facade of the search index.                  *)
(*                                                                         *)
(* Spec   : the facade's connection life cycle (open, createTransaction,   *)
(*          deleteDatabase, the open/delete request handlers, the          *)
(*          transaction event handlers).                                   *)
(* SpecTxn: one IndexedDbTransaction and its get/getAsList/getAll/put/     *)
(*          delete requests against one object store.                      *)
(*                                                                         *)
(* The storage engine is the environment: it delivers the events the       *)
(* handlers are registered for.  Open and delete requests for the one      *)
(* database name are served in the order they were issued (connQueue).     *)
(***************************************************************************)
EXTENDS Integers, Sequences, FiniteSets, TLC

\* ---------------------------------------------------------------- bounds
MaxLoads == 3
MaxDeletes == 2
MaxTxns == 2
MaxGeneratedKey == 2

Loads == 1..MaxLoads
DelCalls == 1..MaxDeletes
Txns == 1..MaxTxns

\* ------------------------------------------------------------- constants
DB_VERSION == 3
SearchIndexOS == "SearchIndex"
SearchIndexMetaDataOS == "SearchIndexMeta"
ElementDataOS == "ElementData"
MetaDataOS == "MetaData"
GroupDataOS == "GroupMetaData"
SearchTermSuggestionsOS == "SearchTermSuggestions"

\* the stores in the order onupgradeneeded creates them
CreateOrder ==
  << SearchIndexOS, SearchIndexMetaDataOS, ElementDataOS, MetaDataOS,
     GroupDataOS, SearchTermSuggestionsOS >>

\* the stores in the order onupgradeneeded hands them to _deleteObjectStores
DeleteOrder ==
  << SearchIndexOS, ElementDataOS, MetaDataOS, GroupDataOS,
     SearchTermSuggestionsOS, SearchIndexMetaDataOS >>

StoreNames == { CreateOrder[i] : i \in 1..Len(CreateOrder) }

VARIABLES
  supported,           \* constructor argument
  onupgrade,           \* constructor argument given (TRUE) or left out
  isLoaded,            \* LazyLoaded: a resolved value is cached
  loadingPromise,      \* LazyLoaded: the load the handle holds, 0 for none
  loadedObject,        \* LazyLoaded: the cached connection, 0 for none
  activeTransactions,  \* DbFacade._activeTransactions
  loadState,           \* per load: the promise the factory returned
  loadPhase,           \* per load: where its DBOpenRequest is
  txnWaiters,          \* per load: createTransaction calls awaiting it
  conn,                \* per load: the IDBDatabase its request produced
  connQueue,           \* engine: open and delete requests not yet served
  dbVersion,           \* engine: stored version, 0 for no database
  dbStores,            \* engine: per store name, absent or what it holds
  dbIndex,             \* engine: SearchIndexWords exists
  delPc,               \* per deleteDatabase call: where it is
  txnPromise,          \* per transaction: IndexedDbTransaction._promise
  txnEng,              \* per transaction: the IDBTransaction
  txnConn,             \* per transaction: the connection it runs on
  upgradeCalls,        \* number of onupgrade() invocations
  upgradeLog,          \* what onupgradeneeded did before its try block, kept
                       \* while the request it ran for is being served
  issuedOnEmpty,       \* per load in flight: no database existed when its
                       \* open request was issued
  opensSinceReset,     \* indexedDB.open calls since the last reset()
  last                 \* the facade call just made and how it returned

lifeVars ==
  << supported, onupgrade, isLoaded, loadingPromise, loadedObject,
     activeTransactions, loadState, loadPhase, txnWaiters, conn, connQueue,
     dbVersion, dbStores, dbIndex, delPc, txnPromise, txnEng, txnConn,
     upgradeCalls, upgradeLog, issuedOnEmpty, opensSinceReset, last >>

VARIABLES
  objectStore,         \* the store the transaction's requests go to
  objects,             \* engine: the records of that store, by key
  committed,           \* engine: its records when the transaction began
  keyGen,              \* engine: the store's key generator
  request,             \* the IDBRequest not yet answered, if any
  result,              \* how the last operation's promise settled
  promise,             \* IndexedDbTransaction._promise, returned by wait()
  transaction,         \* IndexedDbTransaction._transaction (the engine's)
  aborted,             \* IndexedDbTransaction.aborted
  firstEvent,          \* the first event delivered to the transaction
  requestFailed,       \* a request.onerror handler of the transaction ran
  watch,               \* the key the two history variables are kept for
  lastPut,             \* the value last put with watch as the key argument
  deleted              \* watch was deleted and not stored under since

txnVars ==
  << objectStore, objects, committed, keyGen, request, result, promise,
     transaction, aborted, firstEvent, requestFailed, watch, lastPut,
     deleted >>

vars == << lifeVars, txnVars >>

\* JavaScript values, as records of one shape: t is the type, n the number
\* (of a number), the length (of an array) or the id property (of an object,
\* 0 for none), s the string (of a string) or the word property (of an object)
Undefined == [t |-> "undefined", n |-> 0, s |-> ""]
Num(n) == [t |-> "number", n |-> n, s |-> ""]
Str(s) == [t |-> "string", n |-> 0, s |-> s]
Arr(n) == [t |-> "array", n |-> n, s |-> ""]
Obj(id, word) == [t |-> "object", n |-> id, s |-> word]

\* ToBoolean: undefined, 0 and "" are falsy, arrays and objects are truthy
Truthy(v) ==
  CASE v.t = "undefined" -> FALSE
    [] v.t = "number" -> v.n # 0
    [] v.t = "string" -> v.s # ""
    [] OTHER -> TRUE

\* ------------------------------------------------------ helper operators
\* value of last after a step that is not a call of the facade
NoCall == [op |-> "none", res |-> "none"]

Range(f) == { f[x] : x \in DOMAIN f }

Min(S) == CHOOSE x \in S : \A y \in S : x <= y

RECURSIVE SumLen(_, _)
SumLen(f, S) ==
  IF S = {} THEN 0
  ELSE LET x == CHOOSE y \in S : TRUE IN Len(f[x]) + SumLen(f, S \ {x})

\* the object store lists createTransaction is called with
TxnStoreChoices == { {ElementDataOS}, {"NoSuchStore"} }

UnusedLoads == { l \in Loads : loadState[l] = "unused" }
UnusedTxns == { t \in Txns : txnPromise[t] = "none" }
IdleDeletes == { d \in DelCalls : delPc[d] = "idle" }

\* engine: the requests of the connection queue that are open requests
InFlightOpens == { l \in Loads : loadPhase[l] \in {"queued", "upgraded"} }
PendingDeletes == { d \in DelCalls : delPc[d] = "requested" }

\* engine: a transaction that has not yet fired complete or abort
Unfinished(t) == txnEng[t] \in {"active", "aborting"}

\* engine: a versionchange (upgrade or delete) waits for every connection to
\* be closed and for the transactions of closed connections to finish
NoConnectionLeft ==
  /\ \A c \in Loads : conn[c] # "open"
  /\ \A t \in Txns : ~Unfinished(t)

\* ------------------------------------------------------------ LazyLoaded
\* reset(): forget the cached value and the load in progress
ResetHandle ==
  /\ isLoaded' = FALSE
  /\ loadingPromise' = 0
  /\ loadedObject' = 0
  /\ opensSinceReset' = 0

\* mutant of LoadFunction: the open request is issued without looking at
\* supported
LoadFunctionUnguarded(l, throws) ==
  IF throws
  THEN /\ loadState' = [loadState EXCEPT ![l] = "rejected"]
       /\ loadPhase' = [loadPhase EXCEPT ![l] = "done"]
       /\ UNCHANGED << connQueue, opensSinceReset, issuedOnEmpty >>
  ELSE /\ loadState' = [loadState EXCEPT ![l] = "pending"]
       /\ issuedOnEmpty' = [issuedOnEmpty EXCEPT ![l] = (dbVersion = 0)]
       /\ loadPhase' = [loadPhase EXCEPT ![l] = "queued"]
       /\ connQueue' = Append(connQueue, [kind |-> "open", id |-> l])
       /\ opensSinceReset' = opensSinceReset + 1

\* the load function handed to the LazyLoaded: rejects at once when
\* indexedDB is not supported or indexedDB.open throws, and otherwise
\* issues the open request
LoadFunction(l, throws) ==
  IF ~supported \/ throws
  THEN /\ loadState' = [loadState EXCEPT ![l] = "rejected"]
       /\ loadPhase' = [loadPhase EXCEPT ![l] = "done"]
       /\ UNCHANGED << connQueue, opensSinceReset, issuedOnEmpty >>
  ELSE /\ loadState' = [loadState EXCEPT ![l] = "pending"]
       /\ issuedOnEmpty' = [issuedOnEmpty EXCEPT ![l] = (dbVersion = 0)]
       /\ loadPhase' = [loadPhase EXCEPT ![l] = "queued"]
       /\ connQueue' = Append(connQueue, [kind |-> "open", id |-> l])
       /\ opensSinceReset' = opensSinceReset + 1

\* ------------------------------------------------------- upgrade helpers
\* _deleteObjectStores: deleteObjectStore on each name, errors ignored
RECURSIVE DeleteObjectStores(_, _)
DeleteObjectStores(stores, oss) ==
  IF oss = << >> THEN stores
  ELSE DeleteObjectStores([stores EXCEPT ![Head(oss)] = "absent"], Tail(oss))

\* positions in the try block of onupgradeneeded: the createIndex call and
\* the end of the block
IndexStep == Len(CreateOrder) + 1
NoFailure == Len(CreateOrder) + 2

\* the calls of the try block the engine is made to fail at
FailPoints == {1, 4, IndexStep, NoFailure}

\* the createObjectStore call that throws, if any: the injected engine
\* failure or the first store that already exists
FirstFailure(stores, failAt) ==
  LET clash == { i \in 1..Len(CreateOrder) : stores[CreateOrder[i]] # "absent" }
  IN Min(clash \cup {failAt})

\* the try block of onupgradeneeded: the stores created before the throw
CreateObjectStores(stores, failAt) ==
  LET stop == FirstFailure(stores, failAt)
  IN [ s \in StoreNames |->
         IF \E i \in 1..Len(CreateOrder) : i < stop /\ CreateOrder[i] = s
         THEN "empty" ELSE stores[s] ]

\* mutant of NeedsWipe: the test for a fresh database is left out
NeedsWipeAlsoFresh(oldVersion) == oldVersion # DB_VERSION

\* the condition under which onupgradeneeded wipes the old stores
NeedsWipe(oldVersion) == oldVersion # DB_VERSION /\ oldVersion # 0

\* what onupgradeneeded does, in order, before its try block: the callback,
\* then _deleteObjectStores over the six names
WipeCalls(oldVersion, hasCallback) ==
  IF NeedsWipe(oldVersion)
  THEN (IF hasCallback THEN << "onupgrade" >> ELSE << >>) \o DeleteOrder
  ELSE << >>

CallbackCount(calls) ==
  Cardinality({ i \in 1..Len(calls) : calls[i] = "onupgrade" })

\* the names in calls that were handed to deleteObjectStore
Destroyed(calls) ==
  { calls[i] : i \in 1..Len(calls) } \ {"onupgrade"}

\* -------------------------------------------- IndexedDbTransaction.wait
\* mutant of WaitAfter: every callback settles the promise anew
WaitAfterLastCallback(p, outcome) == outcome

\* Promise.fromCallback: the first callback settles the promise
WaitAfter(p, outcome) == IF p = "pending" THEN outcome ELSE p

\* mutant of ActiveAfter: the counter is decremented in every event handler
ActiveAfterEveryEvent(p, n) == n - 1

\* the finally() handler createTransaction registers on wait()
ActiveAfter(p, n) == IF p = "pending" THEN n - 1 ELSE n

\* db.transaction(objectStores, mode) refuses on a closed connection and on
\* a store name the database does not have
EngineStartsTransaction(connection, stores, objectStores) ==
  /\ connection = "open"
  /\ \A s \in objectStores : s \in StoreNames /\ stores[s] # "absent"

\* ------------------------------------------------------------------ Init
\* what the engine may hold under the database name before the first open:
\* nothing, the current schema, or an older schema with its contents
InitDbs ==
  { [version |-> 0, stores |-> [s \in StoreNames |-> "absent"], index |-> FALSE],
    [version |-> DB_VERSION, stores |-> [s \in StoreNames |-> "prior"],
     index |-> TRUE],
    [version |-> DB_VERSION - 1,
     stores |-> [s \in StoreNames |->
                   IF s = SearchTermSuggestionsOS THEN "absent" ELSE "prior"],
     index |-> TRUE] }

Init ==
  /\ supported \in BOOLEAN
  /\ isLoaded = FALSE
  /\ loadingPromise = 0
  /\ loadedObject = 0
  /\ activeTransactions = 0
  /\ loadState = [l \in Loads |-> "unused"]
  /\ loadPhase = [l \in Loads |-> "none"]
  /\ txnWaiters = [l \in Loads |-> << >>]
  /\ conn = [l \in Loads |-> "none"]
  /\ connQueue = << >>
  /\ \E db \in InitDbs :
       \* the callback is consulted only when an older version is stored
       /\ onupgrade \in IF NeedsWipe(db.version) THEN BOOLEAN ELSE {TRUE}
       /\ dbVersion = db.version
       /\ dbStores = db.stores
       /\ dbIndex = db.index
  /\ delPc = [d \in DelCalls |-> "idle"]
  /\ txnPromise = [t \in Txns |-> "none"]
  /\ txnEng = [t \in Txns |-> "none"]
  /\ txnConn = [t \in Txns |-> 0]
  /\ upgradeCalls = 0
  /\ upgradeLog = << >>
  /\ issuedOnEmpty = [l \in Loads |-> FALSE]
  /\ opensSinceReset = 0
  /\ last = NoCall
  \* no transaction is looked into in this specification
  /\ objectStore = ElementDataOS
  /\ objects = << >>
  /\ committed = << >>
  /\ keyGen = 1
  /\ request = << >>
  /\ result = << >>
  /\ promise = "none"
  /\ transaction = "none"
  /\ aborted = FALSE
  /\ firstEvent = "none"
  /\ requestFailed = FALSE
  /\ watch = Undefined
  /\ lastPut = Undefined
  /\ deleted = FALSE

\* ------------------------------------------------------- DbFacade.open
\* open(id): this._db.getAsync().return()
Open ==
  \/ /\ isLoaded
     /\ last' = [op |-> "open", res |-> "resolved"]
     /\ UNCHANGED << supported, onupgrade, isLoaded, loadingPromise,
                     loadedObject, activeTransactions, loadState, loadPhase,
                     txnWaiters, conn, connQueue, dbVersion, dbStores, dbIndex,
                     delPc, txnPromise, txnEng, txnConn, upgradeCalls,
                     upgradeLog, issuedOnEmpty, opensSinceReset >>
  \/ /\ ~isLoaded
     /\ loadingPromise # 0
     /\ last' = [op |-> "open",
                 res |-> IF loadState[loadingPromise] = "rejected"
                         THEN "rejected" ELSE "pending"]
     /\ UNCHANGED << supported, onupgrade, isLoaded, loadingPromise,
                     loadedObject, activeTransactions, loadState, loadPhase,
                     txnWaiters, conn, connQueue, dbVersion, dbStores, dbIndex,
                     delPc, txnPromise, txnEng, txnConn, upgradeCalls,
                     upgradeLog, issuedOnEmpty, opensSinceReset >>
  \/ /\ ~isLoaded
     /\ loadingPromise = 0
     /\ UnusedLoads # {}
     /\ \E throws \in BOOLEAN :
          LET l == Min(UnusedLoads) IN
          /\ LoadFunction(l, throws)
          /\ loadingPromise' = l
          /\ last' = [op |-> "open",
                      res |-> IF ~supported \/ throws
                              THEN "rejected" ELSE "pending"]
     /\ UNCHANGED << supported, onupgrade, isLoaded, loadedObject,
                     activeTransactions, txnWaiters, conn, dbVersion, dbStores,
                     dbIndex, delPc, txnPromise, txnEng, txnConn,
                     upgradeCalls, upgradeLog >>

\* ------------------------------------------- DbFacade.createTransaction
\* the then() callback of createTransaction for the waiters ws of a load
\* that resolved with a connection just opened: the k-th waiter the engine
\* accepts gets the k-th unused transaction
Accepted(stores, ws) ==
  { i \in 1..Len(ws) : EngineStartsTransaction("open", stores, ws[i]) }

NewTxns(stores, ws) ==
  LET n == Cardinality(Accepted(stores, ws))
      first == MaxTxns - Cardinality(UnusedTxns) + 1
  IN first..(first + n - 1)

\* mutant of ActiveAfterCreate: the counter is incremented before the engine
\* is asked for the transaction
ActiveAfterCreateBeforeEngine(n, created) == n + 1

\* the counter after the then() callback ran: incremented once for every
\* transaction the engine started, after db.transaction returned
ActiveAfterCreate(n, created) == n + created

CreateTransaction(objectStores) ==
  /\ loadState[1] # "unused"     \* @pre open() must have been called before
  /\ Cardinality(UnusedTxns) > SumLen(txnWaiters, Loads)
  /\ \/ /\ isLoaded
        /\ EngineStartsTransaction(conn[loadedObject], dbStores, objectStores)
        /\ LET t == Min(UnusedTxns) IN
           /\ txnPromise' = [txnPromise EXCEPT ![t] = "pending"]
           /\ txnEng' = [txnEng EXCEPT ![t] = "active"]
           /\ txnConn' = [txnConn EXCEPT ![t] = loadedObject]
        /\ activeTransactions' = ActiveAfterCreate(activeTransactions, 1)
        /\ last' = [op |-> "createTransaction", res |-> "created"]
        /\ UNCHANGED << supported, onupgrade, isLoaded, loadingPromise,
                        loadedObject, loadState, loadPhase, txnWaiters, conn,
                        connQueue, dbVersion, dbStores, dbIndex, delPc,
                        upgradeCalls, upgradeLog, issuedOnEmpty, opensSinceReset >>
     \/ /\ isLoaded
        /\ ~EngineStartsTransaction(conn[loadedObject], dbStores, objectStores)
        \* catch: throw new DbError("could not create transaction", e)
        /\ activeTransactions' = ActiveAfterCreate(activeTransactions, 0)
        /\ last' = [op |-> "createTransaction", res |-> "refused"]
        /\ UNCHANGED << supported, onupgrade, isLoaded, loadingPromise,
                        loadedObject, loadState, loadPhase,
                        txnWaiters, conn, connQueue, dbVersion, dbStores,
                        dbIndex, delPc, txnPromise, txnEng, txnConn,
                        upgradeCalls, upgradeLog, issuedOnEmpty, opensSinceReset >>
     \/ /\ ~isLoaded
        /\ loadingPromise # 0
        /\ loadState[loadingPromise] = "rejected"
        /\ last' = [op |-> "createTransaction", res |-> "rejected"]
        /\ UNCHANGED << supported, onupgrade, isLoaded, loadingPromise,
                        loadedObject, activeTransactions, loadState, loadPhase,
                        txnWaiters, conn, connQueue, dbVersion, dbStores,
                        dbIndex, delPc, txnPromise, txnEng, txnConn,
                        upgradeCalls, upgradeLog, issuedOnEmpty, opensSinceReset >>
     \/ /\ ~isLoaded
        /\ loadingPromise # 0
        /\ loadState[loadingPromise] = "pending"
        /\ txnWaiters' = [txnWaiters EXCEPT
                            ![loadingPromise] = Append(@, objectStores)]
        /\ last' = [op |-> "createTransaction", res |-> "pending"]
        /\ UNCHANGED << supported, onupgrade, isLoaded, loadingPromise,
                        loadedObject, activeTransactions, loadState, loadPhase,
                        conn, connQueue, dbVersion, dbStores, dbIndex, delPc,
                        txnPromise, txnEng, txnConn, upgradeCalls,
                        upgradeLog, issuedOnEmpty, opensSinceReset >>
     \/ /\ ~isLoaded
        /\ loadingPromise = 0
        /\ UnusedLoads # {}
        /\ \E throws \in BOOLEAN :
             LET l == Min(UnusedLoads) IN
             /\ LoadFunction(l, throws)
             /\ loadingPromise' = l
             /\ txnWaiters' = [txnWaiters EXCEPT
                                 ![l] = IF ~supported \/ throws
                                        THEN << >> ELSE << objectStores >>]
             /\ last' = [op |-> "createTransaction",
                         res |-> IF ~supported \/ throws
                                 THEN "rejected" ELSE "pending"]
        /\ UNCHANGED << supported, onupgrade, isLoaded, loadedObject,
                        activeTransactions, conn, dbVersion, dbStores, dbIndex,
                        delPc, txnPromise, txnEng, txnConn, upgradeCalls, upgradeLog >>

\* ------------------------------------------------ DBOpenRequest handlers
\* onupgradeneeded: served when the open request is first in the queue, the
\* stored version is below DB_VERSION and no other connection is left.
\* failAt is the createObjectStore/createIndex call the engine fails.
OpenOnUpgradeNeeded(l, failAt) ==
  /\ connQueue # << >>
  /\ Head(connQueue) = [kind |-> "open", id |-> l]
  /\ loadPhase[l] = "queued"
  /\ dbVersion < DB_VERSION
  /\ NoConnectionLeft
  /\ LET calls == WipeCalls(dbVersion, onupgrade)
         wipe == Destroyed(calls) # {}
         kept == DeleteObjectStores(dbStores,
                   SelectSeq(calls, LAMBDA x : x # "onupgrade"))
         stop == FirstFailure(kept, failAt)
     IN /\ upgradeLog' = calls
        /\ upgradeCalls' = upgradeCalls + CallbackCount(calls)
        /\ dbStores' = CreateObjectStores(kept, failAt)
        /\ dbIndex' = IF stop = NoFailure THEN TRUE ELSE (dbIndex /\ ~wipe)
        /\ IF stop # NoFailure
           THEN \* catch: callback(new DbError(...))
                /\ loadState' = [loadState EXCEPT
                                   ![l] = WaitAfter(@, "rejected")]
                /\ txnWaiters' = [txnWaiters EXCEPT ![l] = << >>]
                /\ last' = NoCall
           ELSE /\ UNCHANGED << loadState, txnWaiters >>
                /\ last' = NoCall
  /\ dbVersion' = DB_VERSION
  /\ loadPhase' = [loadPhase EXCEPT ![l] = "upgraded"]
  /\ UNCHANGED << supported, onupgrade, isLoaded, loadingPromise,
                  loadedObject, activeTransactions, conn, connQueue, delPc,
                  txnPromise, txnEng, txnConn, issuedOnEmpty,
                  opensSinceReset >>

\* onsuccess: callback(null, DBOpenRequest.result); the LazyLoaded caches
\* the value if this load is the one it holds, and the createTransaction
\* calls that awaited the load run their then() callback
OpenOnSuccess(l) ==
  /\ connQueue # << >>
  /\ Head(connQueue) = [kind |-> "open", id |-> l]
  /\ \/ loadPhase[l] = "upgraded"
     \/ loadPhase[l] = "queued" /\ dbVersion = DB_VERSION
  /\ connQueue' = Tail(connQueue)
  /\ loadPhase' = [loadPhase EXCEPT ![l] = "done"]
  /\ conn' = [conn EXCEPT ![l] = "open"]
  /\ loadState' = [loadState EXCEPT ![l] = WaitAfter(@, "resolved")]
  /\ IF loadState[l] = "pending"
     THEN LET ws == txnWaiters[l]
              new == NewTxns(dbStores, ws) IN
          /\ IF loadingPromise = l
             THEN isLoaded' = TRUE /\ loadedObject' = l
             ELSE UNCHANGED << isLoaded, loadedObject >>
          /\ txnWaiters' = [txnWaiters EXCEPT ![l] = << >>]
          /\ txnPromise' = [t \in Txns |->
                              IF t \in new THEN "pending" ELSE txnPromise[t]]
          /\ txnEng' = [t \in Txns |->
                          IF t \in new THEN "active" ELSE txnEng[t]]
          /\ txnConn' = [t \in Txns |-> IF t \in new THEN l ELSE txnConn[t]]
          /\ activeTransactions' =
               ActiveAfterCreate(activeTransactions, Cardinality(new))
          /\ last' = NoCall
     ELSE /\ UNCHANGED << isLoaded, loadedObject, txnWaiters, txnPromise,
                          txnEng, txnConn, activeTransactions >>
          /\ last' = NoCall
  /\ upgradeLog' = << >>
  /\ issuedOnEmpty' = [issuedOnEmpty EXCEPT ![l] = FALSE]
  /\ UNCHANGED << supported, onupgrade, loadingPromise, dbVersion, dbStores,
                  dbIndex, delPc, upgradeCalls, opensSinceReset >>

\* onerror: callback(new DbError("DbFacade.open.onerror: ..."))
OpenOnError(l) ==
  /\ connQueue # << >>
  /\ Head(connQueue) = [kind |-> "open", id |-> l]
  /\ loadPhase[l] = "queued"
  /\ connQueue' = Tail(connQueue)
  /\ loadPhase' = [loadPhase EXCEPT ![l] = "done"]
  /\ loadState' = [loadState EXCEPT ![l] = WaitAfter(@, "rejected")]
  /\ txnWaiters' = [txnWaiters EXCEPT ![l] = << >>]
  /\ last' = NoCall
  /\ UNCHANGED << supported, onupgrade, isLoaded, loadingPromise,
                  loadedObject, activeTransactions, conn, dbVersion, dbStores,
                  dbIndex, delPc, txnPromise, txnEng, txnConn, upgradeCalls,
                  opensSinceReset >>
  /\ upgradeLog' = << >>
  /\ issuedOnEmpty' = [issuedOnEmpty EXCEPT ![l] = FALSE]

\* mutant of ConnOnClose: the handler only logs
ConnOnCloseLogsOnly(c) ==
  /\ conn[c] = "open"
  /\ \A t \in Txns : txnConn[t] = c => ~Unfinished(t)
  /\ conn' = [conn EXCEPT ![c] = "closed"]
  /\ last' = NoCall
  /\ UNCHANGED << supported, onupgrade, isLoaded, loadingPromise,
                  loadedObject, activeTransactions, loadState, loadPhase,
                  txnWaiters, connQueue, dbVersion, dbStores, dbIndex, delPc,
                  txnPromise, txnEng, txnConn, upgradeCalls, upgradeLog,
                  issuedOnEmpty, opensSinceReset >>

\* DBOpenRequest.result.onclose: the engine closed the connection; it
\* fires close after it aborted the transactions of the connection and
\* these have finished
ConnOnClose(c) ==
  /\ conn[c] = "open"
  /\ \A t \in Txns : txnConn[t] = c => ~Unfinished(t)
  /\ conn' = [conn EXCEPT ![c] = "closed"]
  /\ UNCHANGED txnEng
  /\ ResetHandle
  /\ last' = NoCall
  /\ UNCHANGED << supported, onupgrade, activeTransactions, loadState,
                  loadPhase, txnWaiters, connQueue, dbVersion, dbStores,
                  dbIndex, delPc, txnPromise, txnConn, upgradeCalls, upgradeLog,
                  issuedOnEmpty >>

\* ------------------------------------------- DbFacade.deleteDatabase
\* mutant of DeleteDatabaseBody: the test of _activeTransactions is left out
DeleteDatabaseNoWait(d) ==
  IF isLoaded
  THEN /\ conn' = [conn EXCEPT ![loadedObject] = "closed"]
       /\ connQueue' = Append(connQueue, [kind |-> "delete", id |-> d])
       /\ delPc' = [delPc EXCEPT ![d] = "requested"]
       /\ last' = [op |-> "deleteDatabase", res |-> "requested"]
  ELSE /\ delPc' = [delPc EXCEPT ![d] = "idle"]
       /\ last' = [op |-> "deleteDatabase", res |-> "noop"]
       /\ UNCHANGED << conn, connQueue >>

\* mutant of DeleteDatabaseBody: the engine delete is issued also when the
\* handle is not loaded
DeleteDatabaseUnopened(d) ==
  IF isLoaded /\ activeTransactions > 0
  THEN /\ delPc' = [delPc EXCEPT ![d] = "delay"]
       /\ last' = [op |-> "deleteDatabase", res |-> "delay"]
       /\ UNCHANGED << conn, connQueue >>
  ELSE /\ conn' = [c \in Loads |->
                    IF isLoaded /\ c = loadedObject THEN "closed" ELSE conn[c]]
       /\ connQueue' = Append(connQueue, [kind |-> "delete", id |-> d])
       /\ delPc' = [delPc EXCEPT ![d] = "requested"]
       /\ last' = [op |-> "deleteDatabase", res |-> "requested"]

\* one pass through deleteDatabase() for the call d
DeleteDatabaseBody(d) ==
  IF isLoaded
  THEN IF activeTransactions > 0
       THEN \* Promise.delay(150).then(() => this.deleteDatabase())
            /\ delPc' = [delPc EXCEPT ![d] = "delay"]
            /\ last' = [op |-> "deleteDatabase", res |-> "delay"]
            /\ UNCHANGED << conn, connQueue >>
       ELSE \* getLoaded().close(); indexedDB.deleteDatabase(name)
            /\ conn' = [conn EXCEPT ![loadedObject] = "closed"]
            /\ connQueue' = Append(connQueue, [kind |-> "delete", id |-> d])
            /\ delPc' = [delPc EXCEPT ![d] = "requested"]
            /\ last' = [op |-> "deleteDatabase", res |-> "requested"]
  ELSE \* Promise.resolve()
       /\ delPc' = [delPc EXCEPT ![d] = "idle"]
       /\ last' = [op |-> "deleteDatabase", res |-> "noop"]
       /\ UNCHANGED << conn, connQueue >>

DeleteDatabase ==
  /\ IdleDeletes # {}
  /\ DeleteDatabaseBody(Min(IdleDeletes))
  /\ UNCHANGED << supported, onupgrade, isLoaded, loadingPromise,
                  loadedObject, activeTransactions, loadState, loadPhase,
                  txnWaiters, dbVersion, dbStores, dbIndex, txnPromise, txnEng,
                  txnConn, upgradeCalls, upgradeLog, issuedOnEmpty, opensSinceReset >>

\* the delay elapsed: deleteDatabase() runs again
DeleteRetry(d) ==
  /\ delPc[d] = "delay"
  /\ DeleteDatabaseBody(d)
  /\ UNCHANGED << supported, onupgrade, isLoaded, loadingPromise,
                  loadedObject, activeTransactions, loadState, loadPhase,
                  txnWaiters, dbVersion, dbStores, dbIndex, txnPromise, txnEng,
                  txnConn, upgradeCalls, upgradeLog, issuedOnEmpty, opensSinceReset >>

\* deleteRequest.onsuccess: the engine deleted the database
DeleteOnSuccess(d) ==
  /\ connQueue # << >>
  /\ Head(connQueue) = [kind |-> "delete", id |-> d]
  /\ NoConnectionLeft
  /\ connQueue' = Tail(connQueue)
  /\ dbVersion' = 0
  /\ dbStores' = [s \in StoreNames |-> "absent"]
  /\ dbIndex' = FALSE
  /\ ResetHandle
  /\ delPc' = [delPc EXCEPT ![d] = "idle"]
  /\ last' = NoCall
  /\ UNCHANGED << supported, onupgrade, activeTransactions, loadState,
                  loadPhase, txnWaiters, conn, txnPromise, txnEng, txnConn,
                  upgradeCalls, upgradeLog, issuedOnEmpty >>

\* deleteRequest.onerror: cb(new DbError(`... ${this._db.getLoaded().name}`));
\* getLoaded() on a handle that is not loaded throws inside the handler and
\* cb is never called
DeleteOnError(d) ==
  /\ connQueue # << >>
  /\ Head(connQueue) = [kind |-> "delete", id |-> d]
  /\ connQueue' = Tail(connQueue)
  /\ IF isLoaded
     THEN /\ delPc' = [delPc EXCEPT ![d] = "idle"]
          /\ last' = [op |-> "deleteRequest.onerror", res |-> "rejected"]
     ELSE /\ delPc' = [delPc EXCEPT ![d] = "hung"]
          /\ last' = [op |-> "deleteRequest.onerror", res |-> "threw"]
  /\ UNCHANGED << supported, onupgrade, isLoaded, loadingPromise,
                  loadedObject, activeTransactions, loadState, loadPhase,
                  txnWaiters, conn, dbVersion, dbStores, dbIndex, txnPromise,
                  txnEng, txnConn, upgradeCalls, upgradeLog, issuedOnEmpty, opensSinceReset >>

\* --------------------------------- IndexedDbTransaction event handlers
\* transaction.oncomplete: callback(); a committed transaction may have
\* written to the store it was opened over
TxnOnComplete(t, wrote) ==
  /\ txnEng[t] = "active"
  /\ txnEng' = [txnEng EXCEPT ![t] = "finished"]
  /\ txnPromise' = [txnPromise EXCEPT ![t] = WaitAfter(@, "resolved")]
  /\ activeTransactions' = ActiveAfter(txnPromise[t], activeTransactions)
  /\ dbStores' = IF wrote THEN [dbStores EXCEPT ![ElementDataOS] = "written"]
                 ELSE dbStores
  /\ last' = NoCall
  /\ UNCHANGED << supported, onupgrade, isLoaded, loadingPromise,
                  loadedObject, loadState, loadPhase, txnWaiters, conn,
                  connQueue, dbVersion, dbIndex, delPc, txnConn, upgradeCalls,
                  upgradeLog, issuedOnEmpty, opensSinceReset >>

\* transaction.onabort: callback()
TxnOnAbort(t) ==
  /\ Unfinished(t)
  /\ txnEng' = [txnEng EXCEPT ![t] = "finished"]
  /\ txnPromise' = [txnPromise EXCEPT ![t] = WaitAfter(@, "resolved")]
  /\ activeTransactions' = ActiveAfter(txnPromise[t], activeTransactions)
  /\ last' = NoCall
  /\ UNCHANGED << supported, onupgrade, isLoaded, loadingPromise,
                  loadedObject, loadState, loadPhase, txnWaiters, conn,
                  connQueue, dbVersion, dbStores, dbIndex, delPc, txnConn,
                  upgradeCalls, upgradeLog, issuedOnEmpty, opensSinceReset >>

\* transaction.onerror: callback(new DbError(...)); the engine aborts the
\* transaction afterwards
TxnOnError(t) ==
  /\ Unfinished(t)
  /\ txnEng' = [txnEng EXCEPT ![t] = "aborting"]
  /\ txnPromise' = [txnPromise EXCEPT ![t] = WaitAfter(@, "rejected")]
  /\ activeTransactions' = ActiveAfter(txnPromise[t], activeTransactions)
  /\ last' = NoCall
  /\ UNCHANGED << supported, onupgrade, isLoaded, loadingPromise,
                  loadedObject, loadState, loadPhase, txnWaiters, conn,
                  connQueue, dbVersion, dbStores, dbIndex, delPc, txnConn,
                  upgradeCalls, upgradeLog, issuedOnEmpty, opensSinceReset >>

\* ------------------------------------------------------------------ Next
Next ==
  \/ Open /\ UNCHANGED txnVars
  \/ \E os \in TxnStoreChoices : CreateTransaction(os) /\ UNCHANGED txnVars
  \/ \E l \in Loads, failAt \in FailPoints :
       OpenOnUpgradeNeeded(l, failAt) /\ UNCHANGED txnVars
  \/ \E l \in Loads : OpenOnSuccess(l) /\ UNCHANGED txnVars
  \/ \E l \in Loads : OpenOnError(l) /\ UNCHANGED txnVars
  \/ \E c \in Loads : ConnOnClose(c) /\ UNCHANGED txnVars
  \/ DeleteDatabase /\ UNCHANGED txnVars
  \/ \E d \in DelCalls : DeleteRetry(d) /\ UNCHANGED txnVars
  \/ \E d \in DelCalls : DeleteOnSuccess(d) /\ UNCHANGED txnVars
  \/ \E d \in DelCalls : DeleteOnError(d) /\ UNCHANGED txnVars
  \/ \E t \in Txns, wrote \in BOOLEAN :
       TxnOnComplete(t, wrote) /\ UNCHANGED txnVars
  \/ \E t \in Txns : TxnOnAbort(t) /\ UNCHANGED txnVars
  \/ \E t \in Txns : TxnOnError(t) /\ UNCHANGED txnVars

Spec == Init /\ [][Next]_vars

\* the timer of Promise.delay(150) fires, the engine serves the request at
\* the head of its queue, and every transaction finishes
Fairness ==
  /\ \A d \in DelCalls : WF_vars(DeleteRetry(d) /\ UNCHANGED txnVars)
  /\ \A d \in DelCalls :
       WF_vars((DeleteOnSuccess(d) \/ DeleteOnError(d)) /\ UNCHANGED txnVars)
  /\ \A l \in Loads :
       WF_vars((\/ \E failAt \in FailPoints : OpenOnUpgradeNeeded(l, failAt)
                \/ OpenOnSuccess(l)
                \/ OpenOnError(l)) /\ UNCHANGED txnVars)
  /\ \A t \in Txns :
       WF_vars((\/ \E wrote \in BOOLEAN : TxnOnComplete(t, wrote)
                \/ TxnOnAbort(t)) /\ UNCHANGED txnVars)

SpecLive == Spec /\ Fairness

\* ======================================================= IndexedDbTransaction
\* the keys the callers pass, the keys a store can hold, the values stored
CallKeys == { Num(0), Num(1), Str(""), Str("a") }
KeyUniverse == { Num(n) : n \in 0..MaxGeneratedKey } \cup { Str(""), Str("a") }
\* the values the callers put: records with a word (and perhaps an id) into
\* the store with the key path, a number and a list into the others
PutValues(os) ==
  IF os = SearchIndexMetaDataOS THEN { Obj(0, "a"), Obj(1, "b") }
  ELSE { Num(0), Arr(1) }

\* the object stores as onupgradeneeded creates them
AutoIncrement(os) == os \in {SearchIndexOS, SearchIndexMetaDataOS}
KeyPath(os) == IF os = SearchIndexMetaDataOS THEN "id" ELSE ""
SearchIndexWordsIndex == "SearchIndexWords"
HasIndex(os, name) == os = SearchIndexMetaDataOS /\ name = SearchIndexWordsIndex

\* the index names the callers pass: none, the one index where it exists,
\* and on one store without it
IndexChoices(os) ==
  IF os \in {SearchIndexMetaDataOS, ElementDataOS}
  THEN {"", SearchIndexWordsIndex} ELSE {""}

\* the stores the transaction is run against, one of each kind
TxnStores == { ElementDataOS, SearchIndexOS, SearchIndexMetaDataOS }

\* the pending engine request: key is what the caller passed, arg what the
\* operation handed to the engine
NoRequest ==
  [op |-> "none", key |-> Undefined, arg |-> Undefined, value |-> Undefined,
   index |-> "", pos |-> 0, keys |-> << >>]
NoResult ==
  [op |-> "none", status |-> "none", key |-> Undefined, index |-> "",
   value |-> Undefined, keys |-> << >>, message |-> {}]
Resolved(op, key, index, value, keys) ==
  [op |-> op, status |-> "resolved", key |-> key, index |-> index,
   value |-> value, keys |-> keys, message |-> {}]
\* the promise rejected with new DbError(message); message is the set of
\* the parts the text of the message was put together from
Rejected(op, key, index, message) ==
  [op |-> op, status |-> "rejected", key |-> key, index |-> index,
   value |-> Undefined, keys |-> << >>, message |-> message]

\* the message of the DbError in the catch block of an operation:
\* "...catch\nos: " + objectStore + "\nmessage: " + e.message, and for put
\* also "\nkey: " + key + "\nvalue: " + value
CatchMessage(op) ==
  IF op = "put" THEN {"os", "e.message", "key", "value"}
  ELSE {"os", "e.message"}

\* the message of the DbError in request.onerror.  In getAll the text is
\* `"...os: " + objectStore + ... + request.error && request.error.message`:
\* + binds tighter than &&, the concatenation is a non-empty string, and
\* the message is request.error.message alone.  get, put and delete put the
\* conditional in parentheses.
OnErrorMessage(op) ==
  IF op = "getAll"
  THEN LET concatenation == {"os", "event", "request.error"}
       IN IF concatenation # {} THEN {"request.error.message"}
          ELSE concatenation
  ELSE IF op = "put"
       THEN {"os", "event", "request.error.message", "key", "value"}
       ELSE {"os", "event", "request.error.message"}

\* engine: the order of keys, numbers before strings; the strings of
\* KeyUniverse are ordered by their length
KeyRank(k) == IF k.t = "number" THEN k.n ELSE MaxGeneratedKey + 1 + Len(k.s)
Present(objs) == { k \in KeyUniverse : objs[k] # Undefined }

\* engine: the record a cursor is on after `seen` records, none if exhausted
CursorAt(objs, rank) ==
  LET rest == { k \in Present(objs) : KeyRank(k) > rank }
  IN IF rest = {} THEN Undefined
     ELSE CHOOSE k \in rest : \A j \in rest : KeyRank(k) <= KeyRank(j)

\* engine: the key put(value, key) or put(value) stores the value under;
\* Undefined when put throws a DataError
EngineKey(os, gen, value, key) ==
  IF KeyPath(os) # ""
  THEN IF key # Undefined \/ value.t # "object" THEN Undefined
       ELSE IF value.n # 0 THEN Num(value.n) ELSE Num(gen)
  ELSE IF key # Undefined THEN key
       ELSE IF AutoIncrement(os) THEN Num(gen) ELSE Undefined

\* engine: the value as stored, the generated key injected at the key path
EngineStored(os, value, k) ==
  IF KeyPath(os) # "" THEN Obj(k.n, value.s) ELSE value

\* engine: the key generator after a record was stored under k
EngineKeyGen(os, gen, k) ==
  IF AutoIncrement(os) /\ k.t = "number" /\ k.n >= gen THEN k.n + 1 ELSE gen

\* engine: get(key) on the store, or on the index over the word property
EngineGet(os, objs, key, index) ==
  IF index = "" THEN (IF key \in KeyUniverse THEN objs[key] ELSE Undefined)
  ELSE LET hits == { k \in Present(objs) :
                       objs[k].t = "object" /\ Str(objs[k].s) = key }
       IN IF hits = {} THEN Undefined
          ELSE objs[CHOOSE k \in hits : \A j \in hits : KeyRank(k) <= KeyRank(j)]

\* engine: the index over the word property is unique, a put that would
\* give two records the same word fails with a ConstraintError
EngineUnique(os, objs, k, v) ==
  os = SearchIndexMetaDataOS
    => \A j \in Present(objs) \ {k} : objs[j].s # v.s

\* engine: delete(key) on the store
EngineDelete(objs, key) ==
  IF key \in KeyUniverse THEN [objs EXCEPT ![key] = Undefined] ELSE objs

\* this._transaction.objectStore(name) throws once the transaction is no
\* longer active
Active == transaction = "active"

\* ----------------------------------------------------------- operations
\* put(): `key ? os.put(value, key) : os.put(value)`
PutKey(key) == IF Truthy(key) THEN key ELSE Undefined

Put(key, value) ==
  /\ request = NoRequest
  /\ LET k == EngineKey(objectStore, keyGen, value, PutKey(key)) IN
     /\ k = Undefined \/ k \in KeyUniverse
     /\ IF Active /\ k # Undefined
        THEN /\ request' = [NoRequest EXCEPT !.op = "put", !.key = key,
                                             !.arg = PutKey(key),
                                             !.value = value]
             /\ result' = NoResult
        ELSE \* catch: callback(new DbError("...put().catch..."))
             /\ result' = Rejected("put", key, "", CatchMessage("put"))
             /\ UNCHANGED request
  /\ UNCHANGED << objectStore, objects, committed, keyGen, promise,
                  transaction, aborted, firstEvent, requestFailed, watch,
                  lastPut, deleted >>

\* get(): `if (indexName) os.index(indexName).get(key) else os.get(key)`
GetRequest(op, key, index) ==
  /\ request = NoRequest
  /\ IF Active /\ (index = "" \/ HasIndex(objectStore, index))
     THEN /\ request' = [NoRequest EXCEPT !.op = op, !.key = key,
                                          !.arg = key, !.index = index]
          /\ result' = NoResult
     ELSE /\ result' = Rejected(op, key, index, CatchMessage(op))
          /\ UNCHANGED request
  /\ UNCHANGED << objectStore, objects, committed, keyGen, promise,
                  transaction, aborted, firstEvent, requestFailed, watch,
                  lastPut, deleted >>

Get(key, index) == GetRequest("get", key, index)

\* getAsList(): this.get(objectStore, key, indexName).then(...)
GetAsList(key, index) == GetRequest("getAsList", key, index)

\* getAsList(): `result => result || []`
AsList(value) == IF Truthy(value) THEN value ELSE Arr(0)

\* mutant of Delete: a delete() that hands no key to the engine
DeleteLeavesEntry(key) ==
  /\ request = NoRequest
  /\ IF Active
     THEN /\ request' = [NoRequest EXCEPT !.op = "delete", !.key = key]
          /\ result' = NoResult
     ELSE /\ result' = Rejected("delete", key, "", CatchMessage("delete"))
          /\ UNCHANGED request
  /\ UNCHANGED << objectStore, objects, committed, keyGen, promise,
                  transaction, aborted, firstEvent, requestFailed, watch,
                  lastPut, deleted >>

\* delete(): os.delete(key)
Delete(key) ==
  /\ request = NoRequest
  /\ IF Active
     THEN /\ request' = [NoRequest EXCEPT !.op = "delete", !.key = key,
                                          !.arg = key]
          /\ result' = NoResult
     ELSE /\ result' = Rejected("delete", key, "", CatchMessage("delete"))
          /\ UNCHANGED request
  /\ UNCHANGED << objectStore, objects, committed, keyGen, promise,
                  transaction, aborted, firstEvent, requestFailed, watch,
                  lastPut, deleted >>

\* getAll(): os.openCursor()
GetAll ==
  /\ request = NoRequest
  /\ IF Active
     THEN /\ request' = [NoRequest EXCEPT !.op = "getAll", !.pos = -1]
          /\ result' = NoResult
     ELSE /\ result' = Rejected("getAll", Undefined, "",
                                 CatchMessage("getAll"))
          /\ UNCHANGED request
  /\ UNCHANGED << objectStore, objects, committed, keyGen, promise,
                  transaction, aborted, firstEvent, requestFailed, watch,
                  lastPut, deleted >>

\* getAll(): request.onsuccess: a record under the cursor is pushed and the
\* cursor continued, the end of the store resolves with what was collected
CursorOnSuccess(req, cursor, value) ==
  IF cursor # Undefined
  THEN [request |-> [req EXCEPT !.keys = Append(@, << cursor, value >>),
                                !.pos = KeyRank(cursor)],
        result |-> NoResult]
  ELSE [request |-> NoRequest,
        result |-> Resolved("getAll", Undefined, "", Undefined, req.keys)]

\* request.onsuccess of the pending request, after the engine carried it out
RequestOnSuccess ==
  /\ request # NoRequest
  /\ Active
  /\ \/ /\ request.op = "put"
        /\ LET k == EngineKey(objectStore, keyGen, request.value,
                              request.arg)
               v == EngineStored(objectStore, request.value, k) IN
           /\ EngineUnique(objectStore, objects, k, v)
           /\ objects' = [objects EXCEPT ![k] = v]
           /\ keyGen' = EngineKeyGen(objectStore, keyGen, k)
           /\ result' = Resolved("put", request.key, "", k, << >>)
           /\ lastPut' = IF request.key = watch THEN request.value
                         ELSE lastPut
           /\ deleted' = (deleted /\ k # watch)
        /\ request' = NoRequest
     \/ /\ request.op = "get"
        /\ result' = Resolved("get", request.key, request.index,
                              EngineGet(objectStore, objects, request.arg,
                                        request.index), << >>)
        /\ request' = NoRequest
        /\ UNCHANGED << objects, keyGen, lastPut, deleted >>
     \/ /\ request.op = "getAsList"
        /\ result' = Resolved("getAsList", request.key, request.index,
                              AsList(EngineGet(objectStore, objects,
                                               request.arg, request.index)),
                              << >>)
        /\ request' = NoRequest
        /\ UNCHANGED << objects, keyGen, lastPut, deleted >>
     \/ /\ request.op = "delete"
        /\ objects' = EngineDelete(objects, request.arg)
        /\ result' = Resolved("delete", request.key, "", Undefined, << >>)
        /\ lastPut' = IF request.key = watch THEN Undefined ELSE lastPut
        /\ deleted' = (deleted \/ request.key = watch)
        /\ request' = NoRequest
        /\ UNCHANGED keyGen
     \/ /\ request.op = "getAll"
        /\ LET cursor == CursorAt(objects, request.pos)
               value == IF cursor = Undefined THEN Undefined
                        ELSE objects[cursor]
               next == CursorOnSuccess(request, cursor, value) IN
           /\ request' = next.request
           /\ result' = next.result
        /\ UNCHANGED << objects, keyGen, lastPut, deleted >>
  /\ UNCHANGED << objectStore, committed, promise, transaction, aborted,
                  firstEvent, requestFailed, watch >>

\* request.onerror of the pending request: callback(new DbError(...)); the
\* error is not prevented, so the engine goes on to abort the transaction
RequestOnError ==
  /\ request # NoRequest
  /\ transaction \in {"active", "aborting"}
  /\ result' = Rejected(request.op, request.key, request.index,
                        OnErrorMessage(request.op))
  /\ request' = NoRequest
  /\ transaction' = "aborting"
  /\ requestFailed' = TRUE
  /\ UNCHANGED << objectStore, objects, committed, keyGen, promise, aborted,
                  firstEvent, watch, lastPut, deleted >>

\* the first of the events complete, abort and error that the engine
\* delivered to the transaction
FirstOf(first, event) == IF first = "none" THEN event ELSE first

\* abort(): this.aborted = true; this._transaction.abort()
Abort ==
  /\ Active
  /\ ~aborted
  /\ aborted' = TRUE
  /\ transaction' = "aborting"
  /\ UNCHANGED << objectStore, objects, committed, keyGen, request, result,
                  promise, firstEvent, requestFailed, watch, lastPut,
                  deleted >>

\* transaction.oncomplete: callback()
TransactionOnComplete ==
  /\ Active
  /\ request = NoRequest
  /\ result # NoResult
  /\ transaction' = "finished"
  /\ committed' = objects
  /\ promise' = WaitAfter(promise, "resolved")
  /\ firstEvent' = FirstOf(firstEvent, "complete")
  /\ UNCHANGED << objectStore, objects, keyGen, request, result, aborted,
                  requestFailed, watch, lastPut, deleted >>

\* transaction.onabort: callback(); the engine has undone the writes
TransactionOnAbort ==
  /\ transaction \in {"active", "aborting"}
  /\ request = NoRequest
  /\ transaction' = "finished"
  /\ objects' = committed
  /\ promise' = WaitAfter(promise, "resolved")
  /\ firstEvent' = FirstOf(firstEvent, "abort")
  /\ UNCHANGED << objectStore, committed, keyGen, request, result, aborted,
                  requestFailed, watch, lastPut, deleted >>

\* transaction.onerror: callback(new DbError(...)); the error event of a
\* failed request bubbles to its transaction
TransactionOnError ==
  /\ transaction \in {"active", "aborting"}
  /\ requestFailed
  /\ transaction' = "aborting"
  /\ promise' = WaitAfter(promise, "rejected")
  /\ firstEvent' = FirstOf(firstEvent, "error")
  /\ UNCHANGED << objectStore, objects, committed, keyGen, request, result,
                  aborted, requestFailed, watch, lastPut, deleted >>

\* the transaction createTransaction returned, on a store that is empty
InitTxn ==
  /\ objectStore \in TxnStores
  /\ objects = [k \in KeyUniverse |-> Undefined]
  /\ committed = [k \in KeyUniverse |-> Undefined]
  /\ keyGen = 1
  /\ request = NoRequest
  /\ result = NoResult
  /\ promise = "pending"
  /\ transaction = "active"
  /\ aborted = FALSE
  /\ firstEvent = "none"
  /\ requestFailed = FALSE
  /\ watch \in CallKeys
  /\ lastPut = Undefined
  /\ deleted = FALSE
  \* the facade that created it: open, loaded, one transaction counted
  /\ supported = TRUE
  /\ onupgrade = TRUE
  /\ isLoaded = TRUE
  /\ loadingPromise = 1
  /\ loadedObject = 1
  /\ activeTransactions = 1
  /\ loadState = [l \in Loads |-> IF l = 1 THEN "resolved" ELSE "unused"]
  /\ loadPhase = [l \in Loads |-> IF l = 1 THEN "done" ELSE "none"]
  /\ txnWaiters = [l \in Loads |-> << >>]
  /\ conn = [l \in Loads |-> IF l = 1 THEN "open" ELSE "none"]
  /\ connQueue = << >>
  /\ dbVersion = DB_VERSION
  /\ dbStores = [s \in StoreNames |-> "empty"]
  /\ dbIndex = TRUE
  /\ delPc = [d \in DelCalls |-> "idle"]
  /\ txnPromise = [t \in Txns |-> IF t = 1 THEN "pending" ELSE "none"]
  /\ txnEng = [t \in Txns |-> IF t = 1 THEN "active" ELSE "none"]
  /\ txnConn = [t \in Txns |-> IF t = 1 THEN 1 ELSE 0]
  /\ upgradeCalls = 0
  /\ upgradeLog = << >>
  /\ issuedOnEmpty = [l \in Loads |-> FALSE]
  /\ opensSinceReset = 1
  /\ last = NoCall

NextTxn ==
  \/ \E k \in CallKeys \cup {Undefined}, v \in PutValues(objectStore) :
       Put(k, v) /\ UNCHANGED lifeVars
  \/ \E k \in CallKeys, ix \in IndexChoices(objectStore) :
       Get(k, ix) /\ UNCHANGED lifeVars
  \/ \E k \in CallKeys, ix \in IndexChoices(objectStore) :
       GetAsList(k, ix) /\ UNCHANGED lifeVars
  \/ \E k \in CallKeys : Delete(k) /\ UNCHANGED lifeVars
  \/ GetAll /\ UNCHANGED lifeVars
  \/ RequestOnSuccess /\ UNCHANGED lifeVars
  \/ RequestOnError /\ UNCHANGED lifeVars
  \/ Abort /\ UNCHANGED lifeVars
  \/ TransactionOnComplete /\ UNCHANGED lifeVars
  \/ TransactionOnAbort /\ UNCHANGED lifeVars
  \/ TransactionOnError /\ UNCHANGED lifeVars

SpecTxn == InitTxn /\ [][NextTxn]_vars

\* ================================================================ claims
Unsettled == { t \in Txns : txnPromise[t] = "pending" }

\* C1: while a delete-database request is pending in the engine (from the
\* step that issues it to the step that settles it) no transaction created
\* through createTransaction is unsettled.
C1_NoDeleteUnderTransaction == PendingDeletes # {} => Unsettled = {}

\* C1 witness: a delete request is pending on the loaded connection after a
\* transaction on that connection has settled, while another deleteDatabase
\* call is still polling or also has its request pending.
C1_Witness ==
  /\ PendingDeletes # {}
  /\ \E t \in Txns : txnPromise[t] = "resolved" /\ txnConn[t] = loadedObject
  /\ \E d \in DelCalls : delPc[d] = "requested" /\ d \notin {Min(PendingDeletes)}

\* C2: _activeTransactions is the number of transactions createTransaction
\* returned whose wait() has not settled; it is never negative.
C2_CounterIsUnsettled ==
  /\ activeTransactions = Cardinality(Unsettled)
  /\ activeTransactions >= 0

\* C2 witness: one transaction rejected by an error event and then finished
\* by the abort event that follows (two events, one decrement), another
\* still unsettled.
C2_Witness ==
  /\ activeTransactions = 1
  /\ \E t \in Txns : txnPromise[t] = "rejected" /\ txnEng[t] = "finished"
  /\ \E t \in Txns : txnPromise[t] = "pending"

\* C4 as claimed: at most one engine open request is in flight at a time,
\* and indexedDB.open is called at most once between two resets.
C4_AsClaimed ==
  /\ Cardinality(InFlightOpens) <= 1
  /\ opensSinceReset <= 1

\* the part of C4 the code keeps: one indexedDB.open between two resets
C4_OncePerReset == opensSinceReset <= 1

\* C5, first part: a deleteDatabase() call that finds the handle loaded and
\* no active transaction closes the connection and issues the engine delete
\* in that step.
C5_SameStep ==
  \A d \in DelCalls :
    delPc[d] = "idle" /\ delPc'[d] # "idle" /\ isLoaded
      /\ activeTransactions = 0
    => /\ delPc'[d] = "requested"
       /\ conn'[loadedObject] = "closed"
       /\ connQueue' = Append(connQueue, [kind |-> "delete", id |-> d])

\* C5, second part: when the delete succeeds the handle is reset and the
\* database is gone.
C5_ResetOnSuccess ==
  \A d \in DelCalls :
    delPc[d] = "requested" /\ delPc'[d] = "idle"
      /\ last'.op # "deleteRequest.onerror"
    => /\ ~isLoaded' /\ loadingPromise' = 0 /\ loadedObject' = 0
       /\ dbVersion' = 0
       /\ \A s \in StoreNames : dbStores'[s] = "absent"

\* C5, third part: an open() on the reset handle calls indexedDB.open again.
C5_NextOpenReopens ==
  last'.op = "open" /\ ~isLoaded /\ loadingPromise = 0 /\ supported
  => /\ loadingPromise' \in UnusedLoads
     /\ \/ connQueue' = Append(connQueue,
                               [kind |-> "open", id |-> loadingPromise'])
        \/ last'.res = "rejected"

\* C5, fourth part: an open issued when no database exists resolves with
\* all six stores existing and empty.
C5_YieldsEmptyStores ==
  \A l \in Loads :
    loadPhase[l] \in {"queued", "upgraded"} /\ loadPhase'[l] = "done"
      /\ loadState'[l] = "resolved" /\ issuedOnEmpty[l]
    => \A s \in StoreNames : dbStores'[s] = "empty"

\* C5 as claimed: deleteDatabase() with the handle loaded and no active
\* transaction closes and deletes in the same step; a successful delete
\* resets the handle; the next open() calls the engine again and yields a
\* database whose stores are all empty.
C5_AsClaimed ==
  [][C5_SameStep /\ C5_ResetOnSuccess /\ C5_NextOpenReopens
       /\ C5_YieldsEmptyStores]_vars

\* the parts of C5 that hold of the code
C5_Holds ==
  [][C5_SameStep /\ C5_ResetOnSuccess /\ C5_NextOpenReopens]_vars

\* C6: onupgradeneeded invokes the callback and destroys the old stores if
\* and only if the stored version is neither 0 nor DB_VERSION; the callback
\* is invoked once, before any store is destroyed; none of the prior
\* contents is left when that open resolves; an open that needs no upgrade
\* invokes nothing and destroys nothing.
C6_UpgradeStep ==
  \A l \in Loads :
    loadPhase[l] = "queued" /\ loadPhase'[l] = "upgraded"
    => LET old == (dbVersion # 0 /\ dbVersion # DB_VERSION)
           calls == upgradeLog' IN
       /\ upgradeCalls' = IF old /\ onupgrade
                          THEN upgradeCalls + 1 ELSE upgradeCalls
       /\ Destroyed(calls) = IF old THEN StoreNames ELSE {}
       /\ \A i \in 1..Len(calls) : calls[i] = "onupgrade" => i = 1
       /\ old => \A s \in StoreNames : dbStores'[s] # "prior"
       /\ ~old => \A s \in StoreNames :
                    dbStores[s] = "absent" \/ dbStores'[s] = dbStores[s]

C6_ServedStep ==
  \A l \in Loads :
    loadPhase[l] \in {"queued", "upgraded"} /\ loadPhase'[l] = "done"
    => /\ upgradeCalls' = upgradeCalls
       /\ dbStores' = dbStores
       /\ Destroyed(upgradeLog) # {} /\ loadState'[l] = "resolved"
          => \A s \in StoreNames : dbStores'[s] = "empty"

C6_WitnessFresh ==
  /\ upgradeCalls = 0
  /\ isLoaded
  /\ \A s \in StoreNames : dbStores[s] = "empty"

\* ------------------------------------------------ claims on a transaction
\* the outcome of wait() that the claim assigns to the first event delivered
\* to the transaction
C3_Outcome(first) ==
  CASE first = "none" -> "pending"
    [] first = "error" -> "rejected"
    [] OTHER -> "resolved"

\* C3: wait() settles once: it is pending until the first of complete, abort
\* and error is delivered to the transaction, resolved from then on if that
\* was complete or abort, rejected from then on if it was error; a settled
\* outcome never changes, and a request-level error does not settle it.
C3_SettlesOnce ==
  [][/\ promise # "pending" => promise' = promise
     /\ promise' = C3_Outcome(firstEvent')
     /\ requestFailed' # requestFailed => promise' = promise]_vars

\* C3 witness: a request failed, the error reached the transaction and
\* rejected wait(), and the abort event that followed changed nothing.
C3_Witness ==
  /\ requestFailed
  /\ firstEvent = "error"
  /\ promise = "rejected"
  /\ transaction = "finished"

\* C7 as claimed: a get(store, key) that resolves after a put(store, key,
\* value) resolved, with no delete of the key in between, resolves to that
\* value, for every key including 0 and the empty string.
C7_AsClaimed ==
  /\ result.op = "get" /\ result.status = "resolved" /\ result.index = ""
  /\ result.key = watch /\ lastPut # Undefined
  => result.value = lastPut

\* the part of C7 the code keeps: the keys that are truthy
C7_TruthyKeys == Truthy(watch) => C7_AsClaimed

\* what get(store, key, index) finds in the store as it is
C8_GetNow == EngineGet(objectStore, objects, result.key, result.index)

\* C8 as claimed: getAsList resolves to the empty list where get resolves
\* to no value, and to the value get resolves to otherwise, for every
\* stored value.
C8_AsClaimed ==
  result.op = "getAsList" /\ result.status = "resolved" /\ Active
  => result.value = IF C8_GetNow = Undefined THEN Arr(0) ELSE C8_GetNow

\* the part of C8 the code keeps: the stored values that are truthy
C8_TruthyValues ==
  C8_GetNow = Undefined \/ Truthy(C8_GetNow) => C8_AsClaimed

C9_Resolved ==
  result.op = "getAll" /\ result.status = "resolved" /\ Active

\* the part of C9 the code keeps: getAll resolves with the records the
\* store holds, each once with its value, in the order of their keys
C9_CursorContents ==
  C9_Resolved
  => LET pairs == result.keys IN
     /\ \A i \in 1..Len(pairs) :
          /\ pairs[i][1] \in Present(objects)
          /\ pairs[i][2] = objects[pairs[i][1]]
     /\ \A k \in Present(objects) : \E i \in 1..Len(pairs) : pairs[i][1] = k
     /\ \A i, j \in 1..Len(pairs) :
          i < j => KeyRank(pairs[i][1]) < KeyRank(pairs[j][1])

\* the part of C9 that the keys dropped by put() break: a key that a
\* resolved put was called with, and that was not deleted since, is the key
\* of one of the pairs
C9_EveryPutKey ==
  C9_Resolved /\ lastPut # Undefined
  => \E i \in 1..Len(result.keys) : result.keys[i][1] = watch

\* C9 as claimed: getAll resolves, once the cursor is exhausted, with one
\* (key, value) pair for every key that was put and not deleted since, no
\* pair twice and none for another key, in cursor order.
C9_AsClaimed == C9_CursorContents /\ C9_EveryPutKey

\* C10, the get: once delete(store, key) resolved and until a record is
\* stored under the key again, a get(store, key) that resolves resolves to
\* no value.
C10_GetAfterDelete ==
  /\ result.op = "get" /\ result.status = "resolved" /\ result.index = ""
  /\ result.key = watch /\ deleted
  => result.value = Undefined

\* C10, the delete: a pending delete that succeeds resolves, removes the
\* record of its key and no other, and leaves a store without that key as
\* it was.
C10_DeleteStep ==
  request.op = "delete" /\ result' # NoResult /\ result'.status = "resolved"
  => /\ result'.op = "delete"
     /\ request.key \notin Present(objects')
     /\ \A k \in KeyUniverse \ {request.key} : objects'[k] = objects[k]
     /\ request.key \notin Present(objects) => objects' = objects

\* C10: after delete(store, key) resolves, get(store, key) resolves to no
\* value until the key is stored under again; delete of a key that is not
\* present resolves as well and changes nothing.
C10_DeleteThenGet == [][C10_DeleteStep /\ C10_GetAfterDelete']_vars

\* C10 witness: the get of a deleted key resolved to no value while the
\* store still holds another record.
C10_Witness ==
  /\ result.op = "get" /\ result.status = "resolved"
  /\ result.key = watch /\ deleted
  /\ result.value = Undefined
  /\ Present(objects) # {}

\* ------------------------------------------------ claims, second part
\* the transactions a step creates
C11_Created == { t \in Txns : txnPromise[t] = "none" /\ txnPromise'[t] # "none" }

\* C11: a createTransaction() the engine refuses (a closed connection, an
\* unknown store name) rejects, creates no transaction and leaves
\* _activeTransactions as it was; a call on a loaded handle whose connection
\* is closed is always refused; on every step the counter grows by the
\* number of transactions created, and stays the number of unsettled ones,
\* so there is no later decrement for a refused call.
C11_RefusedLeavesCounter ==
  [][/\ last'.op = "createTransaction" /\ isLoaded
          /\ conn[loadedObject] # "open"
        => last'.res = "refused"
     /\ last'.op = "createTransaction" /\ last'.res = "refused"
        => /\ activeTransactions' = activeTransactions
           /\ C11_Created = {}
           /\ txnPromise' = txnPromise
     /\ C11_Created # {}
        => activeTransactions' = activeTransactions + Cardinality(C11_Created)
     /\ activeTransactions' = Cardinality(Unsettled')]_vars

\* C11 witness: a call was refused on the closed connection of a pending
\* delete while the handle still reports loaded.
C11_Witness ==
  /\ last = [op |-> "createTransaction", res |-> "refused"]
  /\ isLoaded
  /\ conn[loadedObject] = "closed"
  /\ PendingDeletes # {}

\* the schema onupgradeneeded is to leave behind: the six stores and the
\* index
C12_SchemaComplete ==
  /\ \A s \in StoreNames : dbStores[s] # "absent"
  /\ dbIndex

\* the part of C12 the code keeps: an open rejected in its upgrade step
\* stays rejected when the success event of the same request arrives, and
\* the handle is never loaded with the connection of a rejected open
C12_SameRequestRejects ==
  [][\A l \in Loads :
       /\ loadState[l] = "rejected" => loadState'[l] = "rejected"
       /\ loadPhase[l] = "upgraded" /\ loadState[l] = "rejected"
            /\ loadPhase'[l] = "done"
          => isLoaded' = isLoaded /\ loadedObject' = loadedObject
       /\ loadedObject' = l => loadState'[l] = "resolved"]_vars

\* C12 as claimed: besides, the handle is never loaded with a connection to
\* a database whose schema is incomplete.
C12_AsClaimed == isLoaded => C12_SchemaComplete

\* C13: with supported = false no request ever reaches the engine, open()
\* and createTransaction() reject at every call, the first failure stays in
\* the handle, and _activeTransactions stays 0.
C13_Unsupported ==
  [][~supported
     => /\ connQueue' = << >>
        /\ \A l \in Loads : loadPhase'[l] \in {"none", "done"}
        /\ ~isLoaded'
        /\ activeTransactions' = 0
        /\ txnPromise' = txnPromise
        /\ last'.op \in {"open", "createTransaction"}
           => /\ last'.res = "rejected"
              /\ loadingPromise' = 1
              /\ loadState'[1] = "rejected"
              /\ \A l \in Loads \ {1} : loadState'[l] = "unused"]_vars

\* C13 witness: on an unsupported platform a createTransaction() was
\* rejected from the failure an earlier open() left in the handle.
C13_Witness ==
  /\ ~supported
  /\ last = [op |-> "createTransaction", res |-> "rejected"]
  /\ loadState[1] = "rejected"

\* C14: a deleteDatabase() that finds the handle not loaded (never opened,
\* or the open still in flight) resolves at once and changes nothing: no
\* close, no engine delete request, the handle, the counter and the stored
\* database as they were.
C14_NoopWhenNotLoaded ==
  [][last'.op = "deleteDatabase" /\ ~isLoaded
     => /\ last'.res = "noop"
        /\ PendingDeletes' = PendingDeletes
        /\ \A d \in DelCalls :
             delPc'[d] \in {"delay", "requested"} => delPc'[d] = delPc[d]
        /\ UNCHANGED << conn, connQueue, isLoaded, loadingPromise,
                        loadedObject, loadState, loadPhase,
                        activeTransactions, dbVersion, dbStores, dbIndex,
                        txnPromise, txnEng >>]_vars

\* C14 witness: deleteDatabase() was a no-op while the open request was in
\* flight on an existing database, which is still there.
C14_Witness ==
  /\ last = [op |-> "deleteDatabase", res |-> "noop"]
  /\ loadingPromise # 0
  /\ loadPhase[loadingPromise] = "queued"
  /\ connQueue = << [kind |-> "open", id |-> loadingPromise] >>
  /\ dbVersion = DB_VERSION

\* the part of C15 the code keeps: a polling deleteDatabase() stops polling
\* once the transactions have settled (there are MaxTxns of them, so from
\* some point on no new one is created)
C15_StopsPolling ==
  \A d \in DelCalls : (delPc[d] = "delay") ~> (delPc[d] # "delay")

\* C15 as claimed: a deleteDatabase() that polls or has issued the engine
\* delete settles, once the transactions have settled and no new one is
\* created.
C15_AsClaimed ==
  \A d \in DelCalls : (delPc[d] \in {"delay", "requested"}) ~> (delPc[d] = "idle")

\* a step in which the engine reports a connection closed (deleteDatabase
\* closes the connection itself, and then moves its call on)
C16_CloseEvent ==
  /\ \E c \in Loads : conn[c] = "open" /\ conn'[c] = "closed"
  /\ delPc' = delPc

\* C16: the close event of a connection resets the handle; an open() or
\* createTransaction() on the reset handle starts a new load with a request
\* to the engine; and every transaction that is created is created on a
\* connection that is open.
C16_CloseResets ==
  [][/\ C16_CloseEvent
        => ~isLoaded' /\ loadingPromise' = 0 /\ loadedObject' = 0
     /\ last'.op \in {"open", "createTransaction"} /\ ~isLoaded
          /\ loadingPromise = 0
        => /\ loadingPromise' \in UnusedLoads
           /\ \/ last'.res = "rejected"
              \/ connQueue' = Append(connQueue,
                                     [kind |-> "open", id |-> loadingPromise'])
     /\ \A t \in C11_Created :
          txnConn'[t] # 0 /\ conn'[txnConn'[t]] = "open"]_vars

\* C16 witness: after a connection was reported closed the handle holds a
\* new, open connection to the same database (its stores never deleted or
\* wiped), and a transaction was created on it.
C16_Witness ==
  /\ isLoaded
  /\ conn[loadedObject] = "open"
  /\ \E c \in Loads \ {loadedObject} :
       conn[c] = "closed" /\ loadState[c] = "resolved"
  /\ \E t \in Txns : txnConn[t] = loadedObject /\ txnPromise[t] = "pending"
  /\ \A s \in StoreNames : dbStores[s] = "prior"

\* C17 (rollback): once a transaction on which abort() was called has
\* finished, the store holds what was committed before it, whatever the
\* transaction wrote.
C17_RolledBack ==
  aborted /\ transaction = "finished" => objects = committed

\* C17: after abort() the flag is set, wait() does not reject, and once the
\* transaction has finished wait() is resolved and its writes are undone.
C17_AsClaimed ==
  aborted => /\ promise # "rejected"
             /\ transaction = "finished"
                  => promise = "resolved" /\ objects = committed

\* C18: an operation that was rejected was rejected with a DbError whose
\* message names the object store, and for put the key and the value.
C18_AsClaimed ==
  result.status = "rejected"
    => /\ "os" \in result.message
       /\ result.op = "put" => {"key", "value"} \subseteq result.message

\* C18 (all but getAll): the rejections of get, getAsList, put and delete,
\* and the rejection of getAll from its catch block, name the object store.
C18_NamesStoreButGetAll ==
  result.status = "rejected"
    /\ ~(result.op = "getAll" /\ "e.message" \notin result.message)
    => /\ "os" \in result.message
       /\ result.op = "put" => {"key", "value"} \subseteq result.message

\* C19: the error handler of the delete request, which calls
\* this._db.getLoaded(), runs only while the handle is loaded.
C19_AsClaimed ==
  last.op = "deleteRequest.onerror" => isLoaded /\ last.res = "rejected"

\* C19 (close step): the other call of getLoaded(), the one before close(),
\* is made on a loaded handle: a call that issues the engine delete closed
\* the connection the handle held.
C19_CloseStepLoaded ==
  [][last'.op = "deleteDatabase" /\ last'.res = "requested"
       => isLoaded /\ conn'[loadedObject] = "closed"]_vars

\* C20: while the handle is loaded and no deleteDatabase() call is between
\* its close step and the settlement of its delete request, the connection
\* the handle holds is open, so that db.transaction() does not throw for a
\* closed connection.
C20_AsClaimed ==
  isLoaded /\ PendingDeletes = {} => conn[loadedObject] = "open"

====
